---- MODULE Spec2Model ----
(***************************************************************************)
(* HomePage (src/unnamed/part_001): the workflow orchestrator              *)
(* (handleFileSelect, handleExtract), the progress estimator               *)
(* (startProgress, stopProgress and their timers) and the remote service   *)
(* client it awaits (src/unnamed/part_000: uploadFile, validateText).      *)
(*                                                                         *)
(* Time is counted in progress-tick periods: Advance lets one period       *)
(* (INTERVAL_MS) pass once every timer callback that is due has run.       *)
(* Remote calls resolve at any moment.  One action is one event-loop task: *)
(* an event handler, a timer callback, or the continuation of              *)
(* handleExtract after an await (React applies its state updates together).*)
(***************************************************************************)
EXTENDS Integers, Sequences, FiniteSets, TLC

VARIABLES
    selectedFile,      \* useState(null)
    extractedData,     \* useState(null)
    validationResult,  \* useState(null)
    isExtracting,      \* useState(false)
    progress,          \* useState(0), in units of 1/Scale percent
    progressStatus,    \* useState('')
    progressTimerRef,  \* useRef(null): id of the last interval started, 0 = null
    intervals,         \* the running setInterval timers: id -> closure of startProgress
    timeouts,          \* the pending setTimeout callbacks of stopProgress: id -> ms left
    runs,              \* the invocations of handleExtract: run id -> its position and history
    mounted,           \* the view is rendered and its cleanup has not run
    isApiOnline,       \* useState(false)
    healthTimerRef,    \* useRef(null): id of the health interval, 0 = null
    healthIntervals,   \* the running setInterval(checkApiHealth, 10000): id -> ms left
    probes,            \* the checkApiHealth calls awaiting fetch, by order of issue
    probesIssued,      \* how many times checkApiHealth has been called
    probeHistory,      \* how the probes' fetches have ended so far
    mountedMs,         \* ms the mounted view has been up since its effect ran
    apiCall,           \* the latest call of a function of api.service and its result
    comparePage,       \* ComparePage's useState values, by name
    compareCall,       \* the runComparison call handleCompare awaits, or NULL
    uploadPage,        \* UploadPage's useState values, by name
    uploadCall         \* the call handleExtractText or handleValidateWithAI awaits, or NULL

workflowVars == <<selectedFile, extractedData, validationResult, isExtracting, progress,
                  progressStatus, progressTimerRef, intervals, timeouts, runs>>

monitorVars == <<isApiOnline, healthTimerRef, healthIntervals, probes, probesIssued,
                 probeHistory, mountedMs>>

pageVars == <<comparePage, compareCall, uploadPage, uploadCall>>

vars == <<selectedFile, extractedData, validationResult, isExtracting, progress,
          progressStatus, progressTimerRef, intervals, timeouts, runs, mounted,
          isApiOnline, healthTimerRef, healthIntervals, probes, probesIssued,
          probeHistory, mountedMs, apiCall, pageVars>>

----------------------------------------------------------------------------
(* Bounds of the model *)

\* handleExtract invocations explored
MaxRuns == 2
\* ticks of one progress interval explored
MaxTicks == 300
\* checkApiHealth calls explored
MaxProbes == 2
\* invocations of handleExtract explored beside the monitor and under fairness
MaxLifecycleRuns == 1
\* ticks of one progress interval explored beside the monitor and under fairness
MaxLifecycleTicks == 2

----------------------------------------------------------------------------
(* Values *)

NULL == [null |-> TRUE]
UNDEFINED == [undefined |-> TRUE]

\* an object, null or undefined taken as a condition
Truthy(x) == x # NULL /\ x # UNDEFINED

\* a File: its name, its declared media type, and the text printed on it
ImageFile ==
    [name |-> "label.png", type |-> "image/png", content |-> "PARACETAMOL 500MG"]
PdfFile ==
    [name |-> "leaflet.pdf", type |-> "application/pdf", content |-> "AMOXICILLIN 250MG"]
TextFile ==
    [name |-> "notes.txt", type |-> "text/plain", content |-> "plain notes"]

\* the documents the user may pick or drop
Files == {ImageFile, PdfFile, TextFile}

\* texts the extraction service may return: nothing, or what the document shows
Texts == {""} \cup {f.content : f \in Files}

RiskLevels == {"LOW"}

\* const PROGRESS_ESTIMATES = { image: 12, pdf: 30 }
PROGRESS_ESTIMATES == [image |-> 12, pdf |-> 30]

\* const interval = 100
INTERVAL_MS == 100

\* setTimeout(..., 1500)
RESET_DELAY_MS == 1500

\* Math.min(..., 95)
HOLD_PERCENT == 95

\* setProgress(100)
FULL_PERCENT == 100

\* setInterval(checkApiHealth, 10000)
HEALTH_PERIOD_MS == 10000

\* progress is stored exactly: one percent is Scale units, so that
\* elapsed / (estimatedTime * 1000) * 100 is a whole number of units
Scale == PROGRESS_ESTIMATES.image * PROGRESS_ESTIMATES.pdf * 10

Pct(n) == n * Scale

Min(a, b) == IF a <= b THEN a ELSE b
Max(a, b) == IF a >= b THEN a ELSE b

\* progressStatus values: the label text and, for the remaining-time form, R
Label(text) == [text |-> text, remaining |-> 0]
RemainingLabel(r) == [text |-> "Extracting... ~Rs remaining", remaining |-> r]

----------------------------------------------------------------------------
(* Pure functions of HomePage *)

isValidFileType(file) ==
    file.type \in {"image/png", "image/jpeg", "image/jpg", "image/bmp",
                   "image/tiff", "application/pdf"}

\* startProgress: isPdf ? PROGRESS_ESTIMATES.pdf : PROGRESS_ESTIMATES.image
EstimatedTime(file) ==
    IF file.type = "application/pdf" THEN PROGRESS_ESTIMATES.pdf
    ELSE PROGRESS_ESTIMATES.image

\* Math.min((elapsed / (estimatedTime * 1000)) * 100, 95)
TickProgress(elapsed, estimatedTime) ==
    Min((elapsed * 100 * (Scale \div 100)) \div (estimatedTime * 10),
        Pct(HOLD_PERCENT))

\* Math.max(estimatedTime - Math.floor(elapsed / 1000), 0)
TickRemaining(elapsed, estimatedTime) ==
    Max(estimatedTime - (elapsed \div 1000), 0)

----------------------------------------------------------------------------
(* The remote service client: what uploadFile and validateText resolve to *)

\* catch (error) { return { success: false, error: ... } }
Failure(message) == [success |-> FALSE, error |-> message]

\* the payload the extraction service computes for a document
ExtractionData(file, text) == [extracted_text |-> text, src |-> file.name]

\* uploadFile returns response.data (the body) or the normalized failure
UploadResponses(file) ==
    {Failure("Failed to extract text"), NULL, [success |-> TRUE]}
    \cup {[success |-> TRUE, data |-> ExtractionData(file, t)] : t \in {"", file.content}}

\* the verdict the validation service computes for a text
ValidationData(text, risk) == [risk_level |-> risk, validated_text |-> text]

\* validateText returns response.data (the body) or the normalized failure
ValidateResponses(text) ==
    {Failure("Failed to validate text"), NULL}
    \cup {[success |-> TRUE, data |-> ValidationData(text, r)] : r \in RiskLevels}
    \cup {ValidationData(text, r) : r \in RiskLevels}

\* response.success === false
SuccessIsFalse(response) ==
    "success" \in DOMAIN response /\ response.success = FALSE

\* response.data
DataOf(response) ==
    IF "data" \in DOMAIN response THEN response.data ELSE UNDEFINED

\* response.data?.extracted_text, as a condition
HasExtractedText(data) ==
    "extracted_text" \in DOMAIN data /\ data.extracted_text # ""

\* validationResponse.data || validationResponse
ValidationPayload(response) ==
    IF "data" \in DOMAIN response THEN response.data ELSE response

----------------------------------------------------------------------------
(* State after construction *)

Init ==
    /\ selectedFile = NULL
    /\ extractedData = NULL
    /\ validationResult = NULL
    /\ isExtracting = FALSE
    /\ progress = 0
    /\ progressStatus = Label("")
    /\ progressTimerRef = 0
    /\ intervals = <<>>
    /\ timeouts = <<>>
    /\ runs = <<>>
    /\ mounted = TRUE
    /\ isApiOnline = FALSE
    /\ healthTimerRef = 0
    /\ healthIntervals = <<>>
    /\ probes = {}
    /\ probesIssued = 0
    /\ probeHistory = [succeeded |-> FALSE, failed |-> FALSE, last |-> "none"]
    /\ mountedMs = 0
    /\ apiCall = [fn |-> "none"]
    /\ comparePage = [compareFile |-> NULL, comparisonResult |-> NULL,
                      loading |-> FALSE, error |-> "", showModal |-> FALSE]
    /\ compareCall = NULL
    /\ uploadPage = [selectedFile |-> NULL, extractedText |-> "", ocrResult |-> NULL,
                     validationResult |-> NULL, loading |-> FALSE, error |-> ""]
    /\ uploadCall = NULL

----------------------------------------------------------------------------
(* Helpers on the model's own bookkeeping *)

Without(f, k) == [i \in DOMAIN f \ {k} |-> f[i]]

\* a run is in flight while handleExtract has not returned
InFlight(r) == runs[r].pc # "done"

\* the record of a handleExtract invocation: where it stands (pc) and what
\* it has done so far
NewRun(file) ==
    [file |-> file, pc |-> "uploadFile", upload |-> "pending", stored |-> NULL,
     validateCalls |-> 0, validateArg |-> "", validation |-> "none",
     outcome |-> "running", reselected |-> FALSE, error |-> ""]

\* only the latest run's history is kept: an earlier, finished run is
\* remembered as finished and nothing more
Archived ==
    [file |-> NULL, pc |-> "done", upload |-> "archived", stored |-> NULL,
     validateCalls |-> 0, validateArg |-> "", validation |-> "archived",
     outcome |-> "archived", reselected |-> FALSE, error |-> ""]

Archive(rs) == [r \in DOMAIN rs |-> IF rs[r].pc = "done" THEN Archived ELSE rs[r]]

\* how handleExtract reads an upload response
UploadKind(response) ==
    IF response = NULL THEN "threw"
    ELSE IF SuccessIsFalse(response) THEN "failed"
    ELSE IF DataOf(response) = UNDEFINED THEN "nodata"
    ELSE IF HasExtractedText(DataOf(response)) THEN "text"
    ELSE "empty"

\* the message of the error the catch block of handleExtract receives:
\* new Error(response.error || 'Extraction failed'), or the TypeError of
\* reading .success of a response that is not an object
CaughtMessage(response) ==
    IF response = NULL THEN "Cannot read properties of null (reading 'success')"
    ELSE IF response.error # "" THEN response.error
    ELSE "Extraction failed"

\* the error a validation that is not recorded ends with: the error text of
\* the normalized failure, or the TypeError of reading .success of a response
\* that is not an object (caught and passed to console.error)
ValidationError(response) ==
    IF response = NULL THEN "Cannot read properties of null (reading 'success')"
    ELSE IF "error" \in DOMAIN response THEN response.error
    ELSE ""

\* how handleExtract reads a validation response
ValidationKind(response) ==
    IF response = NULL THEN "threw"
    ELSE IF SuccessIsFalse(response) THEN "failed"
    ELSE "ok"

----------------------------------------------------------------------------
(* Document selection *)

\* handleFileSelect without its setValidationResult(null)
handleFileSelectKeepsValidation(file) ==
    /\ selectedFile' = file
    /\ extractedData' = NULL
    /\ progress' = 0
    /\ progressStatus' = Label("")
    /\ runs' = [r \in DOMAIN runs |->
                  IF InFlight(r) THEN [runs[r] EXCEPT !.reselected = TRUE]
                  ELSE runs[r]]
    /\ UNCHANGED <<validationResult, isExtracting, progressTimerRef, intervals,
                   timeouts>>
    /\ UNCHANGED <<mounted, monitorVars, apiCall, pageVars>>

\* a selection that also clears the health interval
handleFileSelectClearsHealthTimer(file) ==
    /\ selectedFile' = file
    /\ extractedData' = NULL
    /\ validationResult' = NULL
    /\ progress' = 0
    /\ progressStatus' = Label("")
    /\ runs' = [r \in DOMAIN runs |->
                  IF InFlight(r) THEN [runs[r] EXCEPT !.reselected = TRUE]
                  ELSE runs[r]]
    /\ healthIntervals' = <<>>
    /\ UNCHANGED <<isExtracting, progressTimerRef, intervals, timeouts>>
    /\ UNCHANGED <<mounted, isApiOnline, healthTimerRef, probes, probesIssued,
                   probeHistory, mountedMs, apiCall, pageVars>>

\* const handleFileSelect = (file) => { ... }
handleFileSelect(file) ==
    /\ selectedFile' = file
    /\ extractedData' = NULL
    /\ validationResult' = NULL
    /\ progress' = 0
    /\ progressStatus' = Label("")
    /\ runs' = [r \in DOMAIN runs |->
                  IF InFlight(r) THEN [runs[r] EXCEPT !.reselected = TRUE]
                  ELSE runs[r]]
    /\ UNCHANGED <<isExtracting, progressTimerRef, intervals, timeouts>>
    /\ UNCHANGED <<mounted, monitorVars, apiCall, pageVars>>

\* a file input that selects whatever e.target.files[0] is
handleFileInputChangeWithoutCheck(file) ==
    /\ mounted
    /\ handleFileSelect(file)

\* handleFileInputChange(e), file = e.target.files[0]
handleFileInputChange(file) ==
    /\ mounted
    /\ IF file # UNDEFINED
       THEN handleFileSelect(file)
       ELSE UNCHANGED vars

\* handleDrop(e), file = e.dataTransfer.files[0]
handleDrop(file) ==
    /\ mounted
    /\ IF file # UNDEFINED /\ isValidFileType(file)
       THEN handleFileSelect(file)
       ELSE UNCHANGED vars

----------------------------------------------------------------------------
(* Progress estimator *)

\* startProgress(file); id is the handle setInterval returns
startProgress(id, file) ==
    /\ progressStatus' = Label("Extracting...")
    /\ intervals' = (id :> [elapsed |-> 0,
                            estimatedTime |-> EstimatedTime(file),
                            due |-> FALSE]) @@ intervals
    /\ progressTimerRef' = id

\* the callback of the interval started by startProgress
ProgressTick(id) ==
    /\ id \in DOMAIN intervals
    /\ intervals[id].due
    /\ LET elapsed == intervals[id].elapsed + INTERVAL_MS
           estimatedTime == intervals[id].estimatedTime
           p == TickProgress(elapsed, estimatedTime)
       IN /\ intervals' = [intervals EXCEPT ![id].elapsed = elapsed,
                                            ![id].due = FALSE]
          /\ progress' = p
          /\ progressStatus' =
                IF p >= Pct(HOLD_PERCENT)
                THEN RemainingLabel(TickRemaining(elapsed, estimatedTime))
                ELSE progressStatus
    /\ UNCHANGED <<selectedFile, extractedData, validationResult, isExtracting,
                   progressTimerRef, timeouts, runs>>
    /\ UNCHANGED <<mounted, monitorVars, apiCall, pageVars>>

\* stopProgress that schedules no reset
stopProgressWithoutReset(id, success) ==
    /\ intervals' = IF progressTimerRef # 0
                    THEN Without(intervals, progressTimerRef)
                    ELSE intervals
    /\ progress' = Pct(FULL_PERCENT)
    /\ progressStatus' = IF success THEN Label("Extraction complete")
                         ELSE Label("Extraction failed")
    /\ timeouts' = timeouts
    /\ UNCHANGED progressTimerRef

\* stopProgress that leaves the tick interval running
stopProgressKeepsTimer(id, success) ==
    /\ intervals' = intervals
    /\ progress' = Pct(FULL_PERCENT)
    /\ progressStatus' = IF success THEN Label("Extraction complete")
                         ELSE Label("Extraction failed")
    /\ timeouts' = (id :> RESET_DELAY_MS) @@ timeouts
    /\ UNCHANGED progressTimerRef

\* stopProgress(success); id names the setTimeout it schedules
stopProgress(id, success) ==
    /\ intervals' = IF progressTimerRef # 0
                    THEN Without(intervals, progressTimerRef)
                    ELSE intervals
    /\ progress' = Pct(FULL_PERCENT)
    /\ progressStatus' = IF success THEN Label("Extraction complete")
                         ELSE Label("Extraction failed")
    /\ timeouts' = (id :> RESET_DELAY_MS) @@ timeouts
    /\ UNCHANGED progressTimerRef

\* the callback of the setTimeout scheduled by stopProgress
ProgressReset(id) ==
    /\ id \in DOMAIN timeouts
    /\ timeouts[id] = 0
    /\ progress' = 0
    /\ progressStatus' = Label("")
    /\ timeouts' = Without(timeouts, id)
    /\ UNCHANGED <<selectedFile, extractedData, validationResult, isExtracting,
                   progressTimerRef, intervals, runs>>
    /\ UNCHANGED <<mounted, monitorVars, apiCall, pageVars>>

\* one tick period passes; every callback that was due has run
Advance ==
    /\ DOMAIN intervals # {} \/ DOMAIN timeouts # {} \/ DOMAIN healthIntervals # {}
    /\ \A i \in DOMAIN intervals :
          /\ ~intervals[i].due
          /\ intervals[i].elapsed < MaxTicks * INTERVAL_MS
    /\ \A t \in DOMAIN timeouts : timeouts[t] > 0
    /\ \A h \in DOMAIN healthIntervals : healthIntervals[h] > 0
    /\ intervals' = [i \in DOMAIN intervals |-> [intervals[i] EXCEPT !.due = TRUE]]
    /\ timeouts' = [t \in DOMAIN timeouts |-> timeouts[t] - INTERVAL_MS]
    /\ healthIntervals' = [h \in DOMAIN healthIntervals |->
                              healthIntervals[h] - INTERVAL_MS]
    /\ mountedMs' = IF mounted /\ probesIssued > 0
                    THEN mountedMs + INTERVAL_MS
                    ELSE mountedMs
    /\ UNCHANGED <<selectedFile, extractedData, validationResult, isExtracting,
                   progress, progressStatus, progressTimerRef, runs>>
    /\ UNCHANGED <<mounted, isApiOnline, healthTimerRef, probes, probesIssued,
                   probeHistory, apiCall, pageVars>>

----------------------------------------------------------------------------
(* Workflow orchestrator: handleExtract, one action per stretch between awaits *)

\* an Extract button that stays enabled during a run
ExtractEnabledWhileExtracting == selectedFile # NULL

\* the Extract button: disabled={!selectedFile || isExtracting}
ExtractEnabled == selectedFile # NULL /\ ~isExtracting

\* handleExtract that dispatches the call without startProgress
handleExtractWithoutProgress ==
    /\ mounted
    /\ IF selectedFile = NULL
       THEN UNCHANGED vars
       ELSE /\ ExtractEnabled
            /\ Len(runs) < MaxRuns
            /\ isExtracting' = TRUE
            /\ runs' = Append(Archive(runs), NewRun(selectedFile))
            /\ UNCHANGED <<progressStatus, intervals, progressTimerRef>>
            /\ UNCHANGED <<selectedFile, extractedData, validationResult, progress,
                           timeouts>>
            /\ UNCHANGED <<mounted, monitorVars, apiCall, pageVars>>

\* handleExtract up to `await uploadFile(selectedFile)`;
\* if (!selectedFile) return
handleExtract ==
    /\ mounted
    /\ IF selectedFile = NULL
       THEN UNCHANGED vars
       ELSE /\ ExtractEnabled
            /\ Len(runs) < MaxRuns
            /\ LET r == Len(runs) + 1
               IN /\ isExtracting' = TRUE
                  /\ startProgress(r, selectedFile)
                  /\ runs' = Append(Archive(runs), NewRun(selectedFile))
            /\ UNCHANGED <<selectedFile, extractedData, validationResult, progress,
                           timeouts>>
            /\ UNCHANGED <<mounted, monitorVars, apiCall, pageVars>>

\* the catch block falling through to the validation call
ExtractionFailedThenValidates(r, kind, message) ==
    /\ runs' = [runs EXCEPT ![r].pc = "validateText", ![r].upload = kind,
                            ![r].validateCalls = @ + 1, ![r].error = message]
    /\ UNCHANGED <<selectedFile, extractedData, validationResult, isExtracting,
                   progress, progressStatus, progressTimerRef, intervals, timeouts>>

\* the catch block that leaves the run marked as extracting
ExtractionFailedStaysExtracting(r, kind, message) ==
    /\ stopProgress(r, FALSE)
    /\ runs' = [runs EXCEPT ![r].pc = "done", ![r].upload = kind,
                            ![r].outcome = "Failed", ![r].error = message]
    /\ UNCHANGED <<selectedFile, extractedData, validationResult, isExtracting>>

\* catch (error) { console.error(error); stopProgress(false) }
\* finally { setIsExtracting(false) }
ExtractionFailed(r, kind, message) ==
    /\ stopProgress(r, FALSE)
    /\ isExtracting' = FALSE
    /\ runs' = [runs EXCEPT ![r].pc = "done", ![r].upload = kind,
                            ![r].outcome = "Failed", ![r].error = message]
    /\ UNCHANGED <<selectedFile, extractedData, validationResult>>

\* the validation call sent with the name of the document instead of its text
DispatchValidateWrongText(r, kind, data) ==
    /\ runs' = [runs EXCEPT ![r].pc = "validateText", ![r].upload = kind,
                            ![r].stored = data,
                            ![r].validateCalls = @ + 1,
                            ![r].validateArg = data.src]
    /\ UNCHANGED <<selectedFile, validationResult, isExtracting, progress,
                   progressStatus, progressTimerRef, intervals, timeouts>>

\* await validateText(response.data.extracted_text)
DispatchValidate(r, kind, data) ==
    /\ runs' = [runs EXCEPT ![r].pc = "validateText", ![r].upload = kind,
                            ![r].stored = data,
                            ![r].validateCalls = @ + 1,
                            ![r].validateArg = data.extracted_text]
    /\ UNCHANGED <<selectedFile, validationResult, isExtracting, progress,
                   progressStatus, progressTimerRef, intervals, timeouts>>

\* stopProgress(true) ... finally { setIsExtracting(false) }, no validation
FinishWithoutValidation(r, kind, data) ==
    /\ stopProgress(r, TRUE)
    /\ isExtracting' = FALSE
    /\ runs' = [runs EXCEPT ![r].pc = "done", ![r].upload = kind,
                            ![r].stored = data, ![r].outcome = "Completed"]
    /\ UNCHANGED <<selectedFile, validationResult>>

\* the validation call dispatched without setExtractedData before it
UploadResolvedSkipsRecording(r, response) ==
    /\ r \in DOMAIN runs
    /\ runs[r].pc = "uploadFile"
    /\ response \in UploadResponses(runs[r].file)
    /\ LET kind == UploadKind(response)
       IN IF kind \in {"threw", "failed"}
          THEN ExtractionFailed(r, kind, CaughtMessage(response))
          ELSE IF HasExtractedText(DataOf(response))
               THEN /\ extractedData' = extractedData
                    /\ DispatchValidate(r, kind, DataOf(response))
               ELSE /\ extractedData' = DataOf(response)
                    /\ FinishWithoutValidation(r, kind, DataOf(response))
    /\ UNCHANGED <<mounted, monitorVars, apiCall, pageVars>>

\* handleExtract from the resolution of uploadFile to the next await or the end
UploadResolved(r, response) ==
    /\ r \in DOMAIN runs
    /\ runs[r].pc = "uploadFile"
    /\ response \in UploadResponses(runs[r].file)
    /\ LET kind == UploadKind(response)
       IN IF kind \in {"threw", "failed"}
          THEN ExtractionFailed(r, kind, CaughtMessage(response))
          ELSE /\ extractedData' = DataOf(response)
               /\ IF HasExtractedText(DataOf(response))
                  THEN DispatchValidate(r, kind, DataOf(response))
                  ELSE FinishWithoutValidation(r, kind, DataOf(response))
    /\ UNCHANGED <<mounted, monitorVars, apiCall, pageVars>>

\* if (validationResponse.success !== false) setValidationResult(...)
RecordValidation(response) ==
    IF ValidationKind(response) = "ok"
    THEN validationResult' = ValidationPayload(response)
    ELSE UNCHANGED validationResult

\* the end of handleExtract without setValidationResult
ValidateResolvedDropsResult(r, response) ==
    /\ r \in DOMAIN runs
    /\ runs[r].pc = "validateText"
    /\ response \in ValidateResponses(runs[r].validateArg)
    /\ stopProgress(r, TRUE)
    /\ isExtracting' = FALSE
    /\ runs' = [runs EXCEPT ![r].pc = "done",
                            ![r].validation = ValidationKind(response),
                            ![r].error = ValidationError(response),
                            ![r].outcome = "Completed"]
    /\ UNCHANGED <<selectedFile, extractedData, validationResult>>
    /\ UNCHANGED <<mounted, monitorVars, apiCall, pageVars>>

\* handleExtract from the resolution of validateText to the end
ValidateResolved(r, response) ==
    /\ r \in DOMAIN runs
    /\ runs[r].pc = "validateText"
    /\ response \in ValidateResponses(runs[r].validateArg)
    /\ RecordValidation(response)
    /\ stopProgress(r, TRUE)
    /\ isExtracting' = FALSE
    /\ runs' = [runs EXCEPT ![r].pc = "done",
                            ![r].validation = ValidationKind(response),
                            ![r].error = ValidationError(response),
                            ![r].outcome = "Completed"]
    /\ UNCHANGED <<selectedFile, extractedData>>
    /\ UNCHANGED <<mounted, monitorVars, apiCall, pageVars>>

----------------------------------------------------------------------------
(* Availability monitor and the life of the view *)

\* checkApiHealth up to `await fetch(...)`
checkApiHealth ==
    /\ probes' = probes \cup {probesIssued + 1}
    /\ probesIssued' = probesIssued + 1

\* what a probe's fetch ends in: a response with ok, a response without ok
\* (an error status), or a rejection (transport error)
ProbeOutcomes == {"ok", "not ok", "rejected"}

\* any response taken for an online service
ProbeOnlineOnAnyResponse(outcome) == outcome # "rejected"

\* setIsApiOnline(response.ok) / catch { setIsApiOnline(false) }
ProbeOnline(outcome) == outcome = "ok"

\* the record of how the probes' fetches have ended, after one more
Recorded(history, outcome) ==
    [succeeded |-> history.succeeded \/ outcome = "ok",
     failed    |-> history.failed \/ outcome # "ok",
     last      |-> outcome]

\* a probe whose failure also ends the run in flight
ProbeResolvedEndsRun(p, outcome) ==
    /\ p \in probes
    /\ outcome \in ProbeOutcomes
    /\ isApiOnline' = ProbeOnline(outcome)
    /\ probes' = probes \ {p}
    /\ probeHistory' = Recorded(probeHistory, outcome)
    /\ isExtracting' = IF ProbeOnline(outcome) THEN isExtracting ELSE FALSE
    /\ UNCHANGED <<mounted, healthTimerRef, healthIntervals, probesIssued, mountedMs>>
    /\ UNCHANGED <<selectedFile, extractedData, validationResult, progress,
                   progressStatus, progressTimerRef, intervals, timeouts, runs, apiCall, pageVars>>

\* a probe whose failure stops the polling
ProbeResolvedStopsPolling(p, outcome) ==
    /\ p \in probes
    /\ outcome \in ProbeOutcomes
    /\ isApiOnline' = ProbeOnline(outcome)
    /\ probes' = probes \ {p}
    /\ probeHistory' = Recorded(probeHistory, outcome)
    /\ healthIntervals' = IF ProbeOnline(outcome) THEN healthIntervals ELSE <<>>
    /\ UNCHANGED <<mounted, healthTimerRef, probesIssued, mountedMs>>
    /\ UNCHANGED <<workflowVars, apiCall, pageVars>>

\* checkApiHealth from the end of fetch
ProbeResolved(p, outcome) ==
    /\ p \in probes
    /\ outcome \in ProbeOutcomes
    /\ isApiOnline' = ProbeOnline(outcome)
    /\ probes' = probes \ {p}
    /\ probeHistory' = Recorded(probeHistory, outcome)
    /\ UNCHANGED <<mounted, healthTimerRef, healthIntervals, probesIssued, mountedMs>>
    /\ UNCHANGED <<workflowVars, apiCall, pageVars>>

\* useEffect(() => { checkApiHealth(); healthTimerRef.current = setInterval(...) }, [])
useEffectMount ==
    /\ mounted
    /\ probesIssued = 0
    /\ healthTimerRef = 0
    /\ checkApiHealth
    /\ healthTimerRef' = 1
    /\ healthIntervals' = (1 :> HEALTH_PERIOD_MS) @@ healthIntervals
    /\ UNCHANGED <<mounted, isApiOnline, probeHistory, mountedMs>>
    /\ UNCHANGED <<workflowVars, apiCall, pageVars>>

\* the callback of setInterval(checkApiHealth, 10000)
HealthTick(id) ==
    /\ id \in DOMAIN healthIntervals
    /\ healthIntervals[id] = 0
    /\ probesIssued < MaxProbes
    /\ checkApiHealth
    /\ healthIntervals' = [healthIntervals EXCEPT ![id] = HEALTH_PERIOD_MS]
    /\ UNCHANGED <<mounted, isApiOnline, healthTimerRef, probeHistory, mountedMs>>
    /\ UNCHANGED <<workflowVars, apiCall, pageVars>>

\* a cleanup that leaves the health interval running
UnmountKeepsInterval ==
    /\ mounted
    /\ mounted' = FALSE
    /\ mountedMs' = 0
    /\ UNCHANGED <<isApiOnline, healthTimerRef, healthIntervals, probes, probesIssued,
                   probeHistory>>
    /\ UNCHANGED <<workflowVars, apiCall, pageVars>>

\* the cleanup returned by the effect: clearInterval(healthTimerRef.current)
Unmount ==
    /\ mounted
    /\ mounted' = FALSE
    /\ healthIntervals' = IF healthTimerRef # 0
                          THEN Without(healthIntervals, healthTimerRef)
                          ELSE healthIntervals
    /\ mountedMs' = 0
    /\ UNCHANGED <<isApiOnline, healthTimerRef, probes, probesIssued, probeHistory>>
    /\ UNCHANGED <<workflowVars, apiCall, pageVars>>

----------------------------------------------------------------------------
(* Specification *)

RunIds == 1..(MaxRuns + 1)

AllUploadResponses == UNION {UploadResponses(f) : f \in Files}

AllValidateResponses == UNION {ValidateResponses(t) : t \in Texts}

Next ==
    \/ \E file \in Files \cup {UNDEFINED} : handleDrop(file)
    \/ \E file \in Files \cup {UNDEFINED} : handleFileInputChange(file)
    \/ handleExtract
    \/ \E r \in RunIds : \E response \in AllUploadResponses : UploadResolved(r, response)
    \/ \E r \in RunIds : \E response \in AllValidateResponses : ValidateResolved(r, response)
    \/ \E id \in RunIds : ProgressTick(id)
    \/ \E id \in RunIds : ProgressReset(id)
    \/ Advance

\* the workflow of the mounted view on its own: the view's effect, and with it
\* the availability monitor, and the view's destruction are left out
Spec == Init /\ [][Next]_vars

\* a remote call that is outstanding settles, and the event loop then runs
\* the rest of handleExtract
UploadSettles ==
    \E r \in RunIds : \E response \in AllUploadResponses : UploadResolved(r, response)

ValidateSettles ==
    \E r \in RunIds : \E response \in AllValidateResponses : ValidateResolved(r, response)

\* the document offered in the life-cycle specification
LifecycleFiles == {ImageFile}

\* React runs a view's effect before it handles the view's first event
EffectRan == healthTimerRef # 0

\* a document dropped on the view
LifecycleDrop(file) ==
    /\ EffectRan
    /\ handleDrop(file)

\* handleExtract, within the runs explored beside the monitor; the user starts
\* a run shortly before a probe falls due, so that runs and probes overlap
LifecycleExtract ==
    /\ EffectRan
    /\ Len(runs) < MaxLifecycleRuns
    /\ \E h \in DOMAIN healthIntervals :
          healthIntervals[h] <= MaxLifecycleTicks * INTERVAL_MS
    /\ handleExtract

\* Advance, within the ticks explored beside the monitor
LifecycleAdvance ==
    /\ \A i \in DOMAIN intervals : intervals[i].elapsed < MaxLifecycleTicks * INTERVAL_MS
    /\ Advance

NextLifecycle ==
    \/ useEffectMount
    \/ \E id \in 1..1 : HealthTick(id)
    \/ \E p \in 1..(MaxProbes + 1), outcome \in ProbeOutcomes : ProbeResolved(p, outcome)
    \/ Unmount
    \/ \E file \in LifecycleFiles : LifecycleDrop(file)
    \/ LifecycleExtract
    \/ \E r \in RunIds, response \in AllUploadResponses : UploadResolved(r, response)
    \/ \E r \in RunIds, response \in AllValidateResponses : ValidateResolved(r, response)
    \/ \E id \in RunIds : ProgressTick(id)
    \/ \E id \in RunIds : ProgressReset(id)
    \/ LifecycleAdvance

\* handleExtract, within the runs explored under fairness
AnsweredExtract ==
    /\ Len(runs) < MaxLifecycleRuns
    /\ handleExtract

NextAnswered ==
    \/ \E file \in Files \cup {UNDEFINED} : handleDrop(file)
    \/ \E file \in Files \cup {UNDEFINED} : handleFileInputChange(file)
    \/ AnsweredExtract
    \/ UploadSettles
    \/ ValidateSettles
    \/ \E id \in RunIds : ProgressTick(id)
    \/ \E id \in RunIds : ProgressReset(id)
    \/ LifecycleAdvance

\* the workflow when every remote call is answered, over the first ticks of
\* each run
SpecAnswered ==
    Init /\ [][NextAnswered]_vars /\ WF_vars(UploadSettles) /\ WF_vars(ValidateSettles)

\* the whole life of the view: its effect, the availability monitor beside a
\* workflow of one document, and its destruction
SpecLifecycle == Init /\ [][NextLifecycle]_vars

----------------------------------------------------------------------------
(* The functions of api.service, applied to every way their request can end *)

\* the texts of a server's error body and of an error's message
ServerErrors == {"", "Failed to extract text", "No file provided"}

ErrorMessages == {"", "Network Error", "Request failed with status code 500"}

\* the errors axios rejects with: with or without a message, with or without a
\* response, whose data may or may not carry an error text
TransportErrors ==
    LET responses == {[status |-> "500"], [data |-> [detail |-> "x"]]}
                       \cup {[data |-> [error |-> e]] : e \in ServerErrors}
        bare == {[name |-> "AxiosError"]} \cup {[message |-> m] : m \in ErrorMessages}
    IN bare \cup {[response |-> r] : r \in responses}
            \cup {[message |-> m, response |-> r] : m \in ErrorMessages, r \in responses}

\* the bodies a request is answered with
ResponseBodies ==
    {NULL, [success |-> TRUE], Failure("Failed to extract text")}
      \cup {[success |-> TRUE, data |-> ExtractionData(f, f.content)] : f \in Files}

\* how a request ends: in a response (response.data is the body) or in an error
TransportOutcomes ==
    {[settled |-> "resolved", data |-> b] : b \in ResponseBodies}
      \cup {[settled |-> "rejected", error |-> e] : e \in TransportErrors}

\* the request was never sent: building it threw
NotSent(error) == [settled |-> "not sent", error |-> error]

\* error.response?.data?.error
ResponseError(error) ==
    IF /\ "response" \in DOMAIN error
       /\ "data" \in DOMAIN error.response
       /\ "error" \in DOMAIN error.response.data
    THEN error.response.data.error
    ELSE ""

\* error.message
MessageOf(error) == IF "message" \in DOMAIN error THEN error.message ELSE ""

\* a catch block that throws the error on
Rethrown(error, fallback) == [threw |-> error]

\* catch (error) { return { success: false,
\*   error: error.response?.data?.error || error.message || fallback } }
Normalized(error, fallback) ==
    Failure(IF ResponseError(error) # "" THEN ResponseError(error)
            ELSE IF MessageOf(error) # "" THEN MessageOf(error)
            ELSE fallback)

\* what a function of api.service returns for the way its request ended
Returned(outcome, fallback) ==
    IF outcome.settled = "resolved"
    THEN outcome.data
    ELSE Normalized(outcome.error, fallback)

\* file.name of a file that is null throws before the request is sent
NameOfNull == [message |-> "Cannot read properties of null (reading 'name')"]

\* documents as a caller of uploadFile may pass them: those of the views, a
\* PDF whose name has no extension, a PDF named in capitals, and an image
\* whose name ends in .pdf
BarePdfFile ==
    [name |-> "leaflet", type |-> "application/pdf", content |-> "AMOXICILLIN 250MG"]
CapitalPdfFile ==
    [name |-> "REPORT.PDF", type |-> "application/pdf", content |-> "AMOXICILLIN 250MG"]
ImageNamedPdfFile ==
    [name |-> "scan.pdf", type |-> "image/jpeg", content |-> "PARACETAMOL 500MG"]

UploadedFiles == Files \cup {BarePdfFile, CapitalPdfFile, ImageNamedPdfFile}

\* name.split('.') of the names above
SplitOnDot(name) ==
    CASE name = "label.png" -> <<"label", "png">>
      [] name = "leaflet.pdf" -> <<"leaflet", "pdf">>
      [] name = "notes.txt" -> <<"notes", "txt">>
      [] name = "leaflet" -> <<"leaflet">>
      [] name = "REPORT.PDF" -> <<"REPORT", "PDF">>
      [] name = "scan.pdf" -> <<"scan", "pdf">>

\* array.pop(): the last element
Pop(parts) == parts[Len(parts)]

\* toLowerCase() of the last parts above
ToLowerCase(part) == IF part = "PDF" THEN "pdf" ELSE part

\* const fileExtension = file.name.split('.').pop().toLowerCase();
\* const endpoint = fileExtension === 'pdf' ? '/api/ocr/pdf' : '/api/ocr/image'
Endpoint(file) ==
    IF ToLowerCase(Pop(SplitOnDot(file.name))) = "pdf"
    THEN "/api/ocr/pdf"
    ELSE "/api/ocr/image"

uploadFile(file, outcome) ==
    IF file = NULL
    THEN Returned(NotSent(NameOfNull), "Failed to upload file")
    ELSE Returned(outcome, "Failed to upload file")

validateText(text, outcome) == Returned(outcome, "Failed to validate text")

getRules(outcome) == Returned(outcome, "Failed to fetch rules")

runComparison(file, outcome) == Returned(outcome, "Failed to run comparison")

CallUploadFile(file, outcome) ==
    /\ apiCall' = [fn |-> "uploadFile",
                   file |-> file,
                   endpoint |-> IF file = NULL THEN NULL ELSE Endpoint(file),
                   outcome |-> IF file = NULL THEN NotSent(NameOfNull) ELSE outcome,
                   result |-> uploadFile(file, outcome)]
    /\ UNCHANGED <<workflowVars, mounted, monitorVars, pageVars>>

CallValidateText(text, outcome) ==
    /\ apiCall' = [fn |-> "validateText", outcome |-> outcome,
                   result |-> validateText(text, outcome)]
    /\ UNCHANGED <<workflowVars, mounted, monitorVars, pageVars>>

CallGetRules(outcome) ==
    /\ apiCall' = [fn |-> "getRules", outcome |-> outcome, result |-> getRules(outcome)]
    /\ UNCHANGED <<workflowVars, mounted, monitorVars, pageVars>>

CallRunComparison(file, outcome) ==
    /\ apiCall' = [fn |-> "runComparison", outcome |-> outcome,
                   result |-> runComparison(file, outcome)]
    /\ UNCHANGED <<workflowVars, mounted, monitorVars, pageVars>>

NextApi ==
    \/ \E file \in UploadedFiles \cup {NULL}, outcome \in TransportOutcomes :
          CallUploadFile(file, outcome)
    \/ \E text \in Texts, outcome \in TransportOutcomes : CallValidateText(text, outcome)
    \/ \E outcome \in TransportOutcomes : CallGetRules(outcome)
    \/ \E file \in Files, outcome \in TransportOutcomes : CallRunComparison(file, outcome)

\* the functions of api.service called one after another
SpecApi == Init /\ [][NextApi]_vars

----------------------------------------------------------------------------
(* ComparePage (src/src/pages/ComparePage.jsx) *)

\* the result the comparison service computes for a document
ComparisonData(file) == [decision |-> "VALID", src |-> file.name]

\* the bodies the comparison request is answered with
ComparisonBodies(file) ==
    {NULL, [success |-> FALSE, error |-> ""], Failure("No file provided"),
     ComparisonData(file), [success |-> TRUE, data |-> ComparisonData(file)]}

\* how the comparison request for a document ends
CompareOutcomes(file) ==
    {[settled |-> "resolved", data |-> b] : b \in ComparisonBodies(file)}
      \cup {[settled |-> "rejected", error |-> e] : e \in TransportErrors}

\* the message of the error a handler's catch block receives:
\* new Error(response.error || fallback), or the TypeError of reading
\* .success of a response that is not an object
ThrownMessage(response, fallback) ==
    IF response = NULL THEN "Cannot read properties of null (reading 'success')"
    ELSE IF response.error # "" THEN response.error
    ELSE fallback

\* err.message || fallback
MessageOr(message, fallback) == IF message # "" THEN message ELSE fallback

\* handleFileChange of ComparePage; the input is enabled at all times
ComparePage_handleFileChange(file) ==
    /\ comparePage' = [comparePage EXCEPT !.compareFile = file,
                                          !.error = "",
                                          !.comparisonResult = NULL,
                                          !.showModal = FALSE]
    /\ UNCHANGED <<compareCall, uploadPage, uploadCall>>
    /\ UNCHANGED <<workflowVars, mounted, monitorVars, apiCall>>

\* the Compare button: disabled={!compareFile || loading}
CompareEnabled == Truthy(comparePage.compareFile) /\ ~comparePage.loading

\* handleCompare up to `await runComparison(compareFile)`
ComparePage_handleCompare ==
    /\ CompareEnabled
    /\ IF ~Truthy(comparePage.compareFile)
       THEN /\ comparePage' = [comparePage EXCEPT
                                  !.error = "Please select a file to compare"]
            /\ UNCHANGED compareCall
       ELSE /\ comparePage' = [comparePage EXCEPT !.loading = TRUE, !.error = ""]
            /\ compareCall' = [file |-> comparePage.compareFile]
    /\ UNCHANGED <<uploadPage, uploadCall>>
    /\ UNCHANGED <<workflowVars, mounted, monitorVars, apiCall>>

\* handleCompare from the end of runComparison:
\* if (response.success === false) throw ...; const result = response.data ||
\* response; setComparisonResult(result); setShowModal(true);
\* catch (err) { setError(err.message || ...) } finally { setLoading(false) }
ComparePage_CompareResolved(outcome) ==
    /\ compareCall # NULL
    /\ outcome \in CompareOutcomes(compareCall.file)
    /\ LET response == runComparison(compareCall.file, outcome)
       IN IF response = NULL \/ SuccessIsFalse(response)
          THEN comparePage' = [comparePage EXCEPT
                  !.error = MessageOr(ThrownMessage(response, "Comparison failed"),
                                      "Failed to compare document"),
                  !.loading = FALSE]
          ELSE comparePage' = [comparePage EXCEPT
                  !.comparisonResult = ValidationPayload(response),
                  !.showModal = TRUE,
                  !.loading = FALSE]
    /\ compareCall' = NULL
    /\ UNCHANGED <<uploadPage, uploadCall>>
    /\ UNCHANGED <<workflowVars, mounted, monitorVars, apiCall>>

\* the modal's close buttons: onClick={() => setShowModal(false)}
ComparePage_closeModal ==
    /\ comparePage.showModal
    /\ Truthy(comparePage.comparisonResult)
    /\ comparePage' = [comparePage EXCEPT !.showModal = FALSE]
    /\ UNCHANGED <<compareCall, uploadPage, uploadCall>>
    /\ UNCHANGED <<workflowVars, mounted, monitorVars, apiCall>>

\* every outcome of a comparison request
AllCompareOutcomes == UNION {CompareOutcomes(f) : f \in Files}

NextCompare ==
    \/ \E file \in Files \cup {UNDEFINED} : ComparePage_handleFileChange(file)
    \/ ComparePage_handleCompare
    \/ \E outcome \in AllCompareOutcomes : ComparePage_CompareResolved(outcome)
    \/ ComparePage_closeModal

\* ComparePage on its own
SpecCompare == Init /\ [][NextCompare]_vars

----------------------------------------------------------------------------
(* UploadPage (src/src/pages/UploadPage.jsx) *)

\* the payload of an extraction service that names its engine and its time
OcrData(file) ==
    [extracted_text |-> file.content, ocr_engine |-> "tesseract",
     processing_time |-> "1.2s", src |-> file.name]

\* the bodies the extraction request is answered with
OcrBodies(file) ==
    UploadResponses(file) \cup {[success |-> TRUE, data |-> OcrData(file)]}

\* how the extraction request for a document ends
OcrOutcomes(file) ==
    {[settled |-> "resolved", data |-> b] : b \in OcrBodies(file)}
      \cup {[settled |-> "rejected", error |-> e] : e \in TransportErrors}

\* how the validation request for a text ends
ValidateOutcomes(text) ==
    {[settled |-> "resolved", data |-> b] : b \in ValidateResponses(text)}
      \cup {[settled |-> "rejected", error |-> e] : e \in TransportErrors}

\* response.data?.field || fallback
FieldOr(response, field, fallback) ==
    LET data == DataOf(response)
    IN IF field \in DOMAIN data /\ data[field] # "" THEN data[field] ELSE fallback

\* handleFileChange of UploadPage; the input is enabled at all times
UploadPage_handleFileChange(file) ==
    /\ uploadPage' = [uploadPage EXCEPT !.selectedFile = file,
                                        !.error = "",
                                        !.validationResult = NULL]
    /\ UNCHANGED <<uploadCall, comparePage, compareCall>>
    /\ UNCHANGED <<workflowVars, mounted, monitorVars, apiCall>>

\* the Extract button: disabled={!selectedFile || loading}
ExtractTextEnabled == Truthy(uploadPage.selectedFile) /\ ~uploadPage.loading

\* handleExtractText up to `await uploadFile(selectedFile)`
UploadPage_handleExtractText ==
    /\ ExtractTextEnabled
    /\ IF ~Truthy(uploadPage.selectedFile)
       THEN /\ uploadPage' = [uploadPage EXCEPT !.error = "Please select a file first"]
            /\ UNCHANGED uploadCall
       ELSE /\ uploadPage' = [uploadPage EXCEPT !.loading = TRUE, !.error = ""]
            /\ uploadCall' = [fn |-> "uploadFile", file |-> uploadPage.selectedFile]
    /\ UNCHANGED <<comparePage, compareCall>>
    /\ UNCHANGED <<workflowVars, mounted, monitorVars, apiCall>>

\* handleExtractText from the end of uploadFile:
\* if (response.success === false) throw ...;
\* setExtractedText(response.data?.extracted_text || ""); setOcrResult({...});
\* catch (err) { setError(err.message || ...) } finally { setLoading(false) }
UploadPage_ExtractTextResolved(outcome) ==
    /\ uploadCall # NULL
    /\ uploadCall.fn = "uploadFile"
    /\ outcome \in OcrOutcomes(uploadCall.file)
    /\ LET response == uploadFile(uploadCall.file, outcome)
       IN IF response = NULL \/ SuccessIsFalse(response)
          THEN uploadPage' = [uploadPage EXCEPT
                  !.error = MessageOr(ThrownMessage(response, "Failed to extract text"),
                                      "Failed to extract text"),
                  !.loading = FALSE]
          ELSE uploadPage' = [uploadPage EXCEPT
                  !.extractedText = FieldOr(response, "extracted_text", ""),
                  !.ocrResult =
                      [ocr_engine |-> FieldOr(response, "ocr_engine", "Unknown"),
                       processing_time |->
                           FieldOr(response, "processing_time", "Unknown")],
                  !.loading = FALSE]
    /\ uploadCall' = NULL
    /\ UNCHANGED <<comparePage, compareCall>>
    /\ UNCHANGED <<workflowVars, mounted, monitorVars, apiCall>>

\* the text area of the OCR results, rendered when ocrResult is set:
\* onChange={(e) => setExtractedText(e.target.value)}
UploadPage_editExtractedText(text) ==
    /\ Truthy(uploadPage.ocrResult)
    /\ uploadPage' = [uploadPage EXCEPT !.extractedText = text]
    /\ UNCHANGED <<uploadCall, comparePage, compareCall>>
    /\ UNCHANGED <<workflowVars, mounted, monitorVars, apiCall>>

\* the Validate button, rendered when ocrResult is set:
\* disabled={!extractedText || loading}
ValidateWithAIEnabled ==
    /\ Truthy(uploadPage.ocrResult)
    /\ uploadPage.extractedText # ""
    /\ ~uploadPage.loading

\* handleValidateWithAI up to `await validateText(extractedText)`
UploadPage_handleValidateWithAI ==
    /\ ValidateWithAIEnabled
    /\ IF uploadPage.extractedText = ""
       THEN /\ uploadPage' = [uploadPage EXCEPT !.error = "No text to validate"]
            /\ UNCHANGED uploadCall
       ELSE /\ uploadPage' = [uploadPage EXCEPT !.loading = TRUE, !.error = ""]
            /\ uploadCall' = [fn |-> "validateText", text |-> uploadPage.extractedText]
    /\ UNCHANGED <<comparePage, compareCall>>
    /\ UNCHANGED <<workflowVars, mounted, monitorVars, apiCall>>

\* handleValidateWithAI from the end of validateText:
\* if (response.success === false) throw ...; setValidationResult(response);
\* catch (err) { setError(err.message || ...) } finally { setLoading(false) }
UploadPage_ValidateWithAIResolved(outcome) ==
    /\ uploadCall # NULL
    /\ uploadCall.fn = "validateText"
    /\ outcome \in ValidateOutcomes(uploadCall.text)
    /\ LET response == validateText(uploadCall.text, outcome)
       IN IF response = NULL \/ SuccessIsFalse(response)
          THEN uploadPage' = [uploadPage EXCEPT
                  !.error = MessageOr(ThrownMessage(response, "Failed to validate text"),
                                      "Failed to validate text"),
                  !.loading = FALSE]
          ELSE uploadPage' = [uploadPage EXCEPT !.validationResult = response,
                                                !.loading = FALSE]
    /\ uploadCall' = NULL
    /\ UNCHANGED <<comparePage, compareCall>>
    /\ UNCHANGED <<workflowVars, mounted, monitorVars, apiCall>>

\* every outcome of an extraction request and of a validation request
AllOcrOutcomes == UNION {OcrOutcomes(f) : f \in Files}
AllValidateOutcomes == UNION {ValidateOutcomes(t) : t \in Texts}

NextUpload ==
    \/ \E file \in Files \cup {UNDEFINED} : UploadPage_handleFileChange(file)
    \/ UploadPage_handleExtractText
    \/ \E outcome \in AllOcrOutcomes : UploadPage_ExtractTextResolved(outcome)
    \/ \E text \in Texts : UploadPage_editExtractedText(text)
    \/ UploadPage_handleValidateWithAI
    \/ \E outcome \in AllValidateOutcomes : UploadPage_ValidateWithAIResolved(outcome)

\* UploadPage on its own
SpecUpload == Init /\ [][NextUpload]_vars

----------------------------------------------------------------------------
(* Properties *)

\* the results panel: {validationResult ? (...) : extractedData && (
\*   <p>Validation in progress...</p>)}; null and undefined are falsy, the
\* objects stored in either field are truthy
ValidationInProgressShown ==
    /\ validationResult = NULL
    /\ extractedData # NULL
    /\ extractedData # UNDEFINED

\* a step of the workflow: a selection, the extract command, the rest of
\* handleExtract after a call, a progress tick or a progress reset
\* (told by what it changes: the view's state or runs, a tick's elapsed time,
\* or the timers that exist; the passage of time changes none of these)
WorkflowAction ==
    \/ <<selectedFile, extractedData, validationResult, isExtracting, progress,
         progressStatus, progressTimerRef, runs>>' #
          <<selectedFile, extractedData, validationResult, isExtracting, progress,
            progressStatus, progressTimerRef, runs>>
    \/ DOMAIN intervals' # DOMAIN intervals
    \/ DOMAIN timeouts' # DOMAIN timeouts
    \/ \E id \in DOMAIN intervals : intervals'[id].elapsed # intervals[id].elapsed

\* the probes issued are the immediate one and one per full period mounted
OnSchedule ==
    /\ DOMAIN healthIntervals = {healthTimerRef}
    /\ probesIssued >= mountedMs \div HEALTH_PERIOD_MS
    /\ probesIssued <= 1 + (mountedMs \div HEALTH_PERIOD_MS)

\* the run r makes a step of handleExtract from position `from` to the end
Finishes(r, from) ==
    /\ r \in DOMAIN runs
    /\ runs[r].pc = from
    /\ runs'[r].pc = "done"

\* the texts the state of HomePage holds (progressStatus is its only
\* text-valued state besides the clock time lastExtractionTime)
StateStrings == {progressStatus.text}

\* C1: validationResult is non-null only if extractedData is non-null and
\* carries a non-empty extracted_text
ValidationOnlyWithExtraction ==
    validationResult # NULL => HasExtractedText(extractedData)

\* C2: a stored result always belongs to the currently selected document: the
\* resolution of a call dispatched for a previous document is discarded
StoredResultsBelongToSelectedFile ==
    /\ "src" \in DOMAIN extractedData =>
          selectedFile # NULL /\ extractedData.src = selectedFile.name
    /\ validationResult # NULL =>
          selectedFile # NULL /\ validationResult.validated_text = selectedFile.content

\* C3: the step that changes the selected document leaves extractedData and
\* validationResult null, progress 0 and progressStatus empty
SelectionResetsAtomically ==
    [][selectedFile' # selectedFile =>
          /\ extractedData' = NULL
          /\ validationResult' = NULL
          /\ progress' = 0
          /\ progressStatus' = Label("")]_vars

\* C3 witness: a run completed with both results for one document, another
\* document is now selected and everything derived is back at its default
SelectionResetWitness ==
    \E r \in DOMAIN runs :
        /\ runs[r].pc = "done"
        /\ runs[r].upload = "text"
        /\ runs[r].validation = "ok"
        /\ ~runs[r].reselected
        /\ selectedFile # runs[r].file
        /\ extractedData = NULL
        /\ validationResult = NULL
        /\ progress = 0
        /\ progressStatus = Label("")

\* C4: a run whose upload succeeded with non-empty extracted_text has
\* dispatched validate-text exactly once, with that text, in the same step
ValidateDispatchedExactlyOnce ==
    \A r \in DOMAIN runs :
        HasExtractedText(runs[r].stored) =>
            /\ runs[r].validateCalls = 1
            /\ runs[r].validateArg = runs[r].stored.extracted_text

\* C4 witness: such a run has gone through to its end
ValidateDispatchedWitness ==
    \E r \in DOMAIN runs :
        /\ runs[r].pc = "done"
        /\ HasExtractedText(runs[r].stored)
        /\ runs[r].validateCalls = 1
        /\ runs[r].validateArg = runs[r].file.content

\* C5: a run whose upload failed (normalized failure or thrown error) is over
\* and has dispatched no validate-text call
NoValidationAfterExtractionFailure ==
    \A r \in DOMAIN runs :
        runs[r].upload \in {"failed", "threw"} =>
            /\ runs[r].validateCalls = 0
            /\ runs[r].pc = "done"
            /\ runs[r].outcome = "Failed"

\* C5 witness: a run ended by a failed upload
ExtractionFailureWitness ==
    \E r \in DOMAIN runs :
        /\ runs[r].upload = "failed"
        /\ runs[r].pc = "done"
        /\ progressStatus = Label("Extraction failed")

\* C6: a run whose validate-text call fails ends Completed (stopProgress(true),
\* success label) with extractedData as stored at extraction success and
\* validationResult null
ValidationFailureKeepsExtraction ==
    [][\A r \in DOMAIN runs :
          (Finishes(r, "validateText")
             /\ runs'[r].validation \in {"failed", "threw"}) =>
              /\ runs'[r].outcome = "Completed"
              /\ progress' = Pct(FULL_PERCENT)
              /\ progressStatus' = Label("Extraction complete")
              /\ extractedData' = runs'[r].stored
              /\ validationResult' = NULL]_vars

\* C7: a run whose upload succeeds with empty extracted_text records
\* extractedData, dispatches no validate-text call and halts with
\* validationResult null
EmptyTextHaltsWithoutValidation ==
    [][\A r \in DOMAIN runs :
          (Finishes(r, "uploadFile") /\ runs'[r].upload = "empty") =>
              /\ extractedData' = runs'[r].stored
              /\ extractedData' # NULL
              /\ runs'[r].validateCalls = 0
              /\ validationResult' = NULL]_vars

\* C8: while a run's remote call is outstanding (isExtracting), the progress
\* fraction is at most 95
ProgressAtMostHoldWhileExtracting ==
    isExtracting => progress <= Pct(HOLD_PERCENT)

\* C9: while a run is in flight (and no document has been selected during
\* it), the progress fraction never decreases from one step to the next
ProgressNeverDecreasesInRun ==
    [][\A r \in DOMAIN runs :
          (InFlight(r) /\ runs'[r].pc # "done" /\ ~runs'[r].reselected) =>
              progress' >= progress]_vars

\* C10: once a document has been selected while a run is in flight, no
\* progress tick timer is running and the fraction and label stay at zero
CancelledRunStaysAtZero ==
    \A r \in DOMAIN runs :
        (InFlight(r) /\ runs[r].reselected) =>
            /\ DOMAIN intervals = {}
            /\ progress = 0
            /\ progressStatus = Label("")

\* C11: a document of an unaccepted media type is rejected on both selection
\* paths (file input and drop): selectedFile, extractedData, validationResult
\* and progress are left unchanged
UnacceptedTypeRejected ==
    [][\A file \in Files :
          (~isValidFileType(file) /\ (handleDrop(file) \/ handleFileInputChange(file))) =>
              UNCHANGED <<selectedFile, extractedData, validationResult, progress>>]_vars

\* C12: when the extraction call fails the run ends Failed (no longer
\* extracting) and the failure message is stored in the state of the view
FailureReasonStored ==
    [][\A r \in DOMAIN runs :
          (Finishes(r, "uploadFile") /\ runs'[r].outcome = "Failed") =>
              /\ ~isExtracting'
              /\ runs'[r].error \in StateStrings']_vars

\* C13: the step that ends a run sets the fraction to 100 with the label of
\* the run's outcome and schedules the reset after the display delay; the
\* reset sets fraction and label to zero, and once it has run with no newer
\* run started they are zero
CompletionShowsFullThenResets ==
    /\ [][\A r \in DOMAIN runs :
             (InFlight(r) /\ runs'[r].pc = "done") =>
                 /\ progress' = Pct(FULL_PERCENT)
                 /\ progressStatus' = IF runs'[r].outcome = "Failed"
                                      THEN Label("Extraction failed")
                                      ELSE Label("Extraction complete")
                 /\ r \in DOMAIN timeouts'
                 /\ timeouts'[r] = RESET_DELAY_MS]_vars
    /\ [][\A r \in DOMAIN timeouts :
             r \notin DOMAIN timeouts' =>
                 /\ timeouts[r] = 0
                 /\ progress' = 0
                 /\ progressStatus' = Label("")]_vars
    /\ [](\A r \in DOMAIN runs :
             (r = Len(runs) /\ runs[r].pc = "done" /\ r \notin DOMAIN timeouts) =>
                 /\ progress = 0
                 /\ progressStatus = Label(""))

\* C13 witness: a run ended Failed, the display delay has passed with no
\* selection and no newer run, and fraction and label are back at zero
CompletionResetWitness ==
    \E r \in DOMAIN runs :
        /\ r = Len(runs)
        /\ runs[r].outcome = "Failed"
        /\ ~runs[r].reselected
        /\ selectedFile = runs[r].file
        /\ r \notin DOMAIN timeouts
        /\ progress = 0
        /\ progressStatus = Label("")

\* C14: while every probe so far has succeeded, isApiOnline is true once a
\* probe has completed; while every probe so far has failed, it is false
SignalFollowsUniformBackend ==
    /\ (probeHistory.succeeded /\ ~probeHistory.failed) => isApiOnline
    /\ (probeHistory.failed /\ ~probeHistory.succeeded) => ~isApiOnline

\* C14 witness: the immediate and the periodic probe have both succeeded and
\* the signal is true
UniformBackendWitness ==
    /\ probesIssued = MaxProbes
    /\ probes = {}
    /\ probeHistory.succeeded
    /\ ~probeHistory.failed
    /\ isApiOnline

\* C15: a probe that ends without success sets isApiOnline to false, and
\* when a period has passed since the latest probe was issued and it is still
\* unanswered, isApiOnline is false
ProbeWithoutSuccessSetsOffline ==
    /\ [][\A p \in probes :
             (p \notin probes' /\ probeHistory'.last # "ok") => ~isApiOnline']_vars
    /\ [](\A p \in probes, h \in DOMAIN healthIntervals :
             (p = probesIssued /\ healthIntervals[h] = 0) => ~isApiOnline)

\* C16: once the effect has run and while the view is mounted, the probes
\* issued are the immediate one and one per full period; after teardown
\* no interval is left and no probe is issued
ProbeSchedule ==
    /\ []((EffectRan /\ mounted) =>
             /\ DOMAIN healthIntervals = {healthTimerRef}
             /\ probesIssued >= 1
             /\ probesIssued >= mountedMs \div HEALTH_PERIOD_MS
             /\ probesIssued <= 1 + (mountedMs \div HEALTH_PERIOD_MS))
    /\ [](~mounted => DOMAIN healthIntervals = {})
    /\ [][~mounted => probesIssued' = probesIssued]_vars

\* C16 witness: the view is torn down after its periodic probe was issued,
\* while a probe is unanswered
ProbeScheduleWitness ==
    /\ ~mounted
    /\ probesIssued = MaxProbes
    /\ probes # {}
    /\ DOMAIN healthIntervals = {}

\* C17: once the view is destroyed no progress tick timer and no delayed
\* reset is left, so none of their callbacks runs
TeardownCancelsProgressTimers ==
    ~mounted => (DOMAIN intervals = {} /\ DOMAIN timeouts = {})

\* C18: a step of a health probe (its issue or its answer) leaves the
\* workflow's state and timers as they are
ProbeChangesOnlySignal ==
    [][probes' # probes => UNCHANGED workflowVars]_vars

\* C18 witness: a run started before the periodic probe was issued is still
\* in flight after that probe has failed
ProbeDuringRunWitness ==
    \E r \in DOMAIN runs :
        /\ InFlight(r)
        /\ isExtracting
        /\ r \in DOMAIN intervals
        /\ mountedMs = HEALTH_PERIOD_MS + INTERVAL_MS
        /\ probesIssued = MaxProbes
        /\ probes = {}
        /\ probeHistory.last = "rejected"
        /\ ~isApiOnline

FailureLeavesViewReady ==
    \A r \in DOMAIN runs :
        (/\ r = Len(runs)
         /\ runs[r].pc = "done"
         /\ runs[r].outcome = "Failed" \/ runs[r].validation \in {"failed", "threw"}) =>
            /\ ~isExtracting
            /\ selectedFile # NULL => ExtractEnabled

\* C20 witness: after an earlier run had ended, a document was extracted
\* again, that run failed and the view is ready for the next one
RetryAfterFailureWitness ==
    /\ Len(runs) = MaxRuns
    /\ runs[Len(runs)].outcome = "Failed"
    /\ runs[Len(runs)].upload = "failed"
    /\ ExtractEnabled

\* C21: when the validation call fails after a successful extraction, in
\* either form (normalized failure or exception), its error is stored in the
\* state of the view as a secondary error
ValidationErrorStored ==
    [][\A r \in DOMAIN runs :
          (Finishes(r, "validateText") /\ runs'[r].validation \in {"failed", "threw"}) =>
              runs'[r].error \in StateStrings']_vars

\* C22: an extraction response without a failure flag and without a payload
\* ends the run Failed (stopProgress(false)) and leaves extractedData as it was
MalformedResponseFails ==
    [][\A r \in DOMAIN runs :
          (Finishes(r, "uploadFile") /\ runs'[r].upload = "nodata") =>
              /\ runs'[r].outcome = "Failed"
              /\ progressStatus' = Label("Extraction failed")
              /\ extractedData' = extractedData]_vars

\* C23: a run during which no document is selected, whose extraction call
\* succeeds with non-empty text and whose validation call succeeds, ends
\* Completed with extractedData and validationResult set from the two
\* responses; and every run in flight ends once its calls are answered
CompletesWithBothResults ==
    /\ [][\A r \in DOMAIN runs :
             (/\ Finishes(r, "validateText")
              /\ runs'[r].validation = "ok"
              /\ ~runs'[r].reselected) =>
                 /\ runs'[r].outcome = "Completed"
                 /\ runs'[r].upload = "text"
                 /\ extractedData' = runs'[r].stored
                 /\ HasExtractedText(extractedData')
                 /\ validationResult' # NULL
                 /\ validationResult'.validated_text = extractedData'.extracted_text]_vars
    /\ (\E r \in DOMAIN runs : InFlight(r)) ~> (\A r \in DOMAIN runs : ~InFlight(r))

\* C23 witness: the PDF was extracted and validated with no selection in
\* between; the run is Completed and both results are those of the PDF
CompletedBothWitness ==
    \E r \in DOMAIN runs :
        /\ runs[r].file = PdfFile
        /\ runs[r].outcome = "Completed"
        /\ runs[r].validation = "ok"
        /\ ~runs[r].reselected
        /\ extractedData = ExtractionData(PdfFile, PdfFile.content)
        /\ validationResult # NULL
        /\ validationResult.validated_text = PdfFile.content
        /\ validationResult.risk_level = "LOW"

\* C24: the step that dispatches the validation call is one in which the
\* extraction result has been recorded (setExtractedData), and the text sent
\* is the extracted_text of that recorded result
ValidateAfterRecording ==
    [][\A r \in DOMAIN runs :
          runs'[r].validateCalls > runs[r].validateCalls =>
              /\ extractedData' = runs'[r].stored
              /\ HasExtractedText(extractedData')
              /\ runs'[r].validateArg = extractedData'.extracted_text]_vars

\* C24 witness: the validation call of the PDF's run is outstanding, sent
\* with the text of the extraction result that is recorded
ValidateAfterRecordingWitness ==
    \E r \in DOMAIN runs :
        /\ runs[r].pc = "validateText"
        /\ runs[r].file = PdfFile
        /\ extractedData = ExtractionData(PdfFile, PdfFile.content)
        /\ runs[r].validateArg = PdfFile.content

\* C25: in a run (with no selection during it) of an image (12 s expected) or
\* a PDF (30 s expected), once the ticks have reached the elapsed time that
\* maps to 95 the fraction is exactly 95 and the label is the remaining-time
\* form with R = max(expected - whole elapsed seconds, 0), never negative;
\* before, the label is the plain 'Extracting...'
HoldAndRemainingLabel ==
    \A r \in DOMAIN runs :
        (/\ InFlight(r)
         /\ ~runs[r].reselected
         /\ r \in DOMAIN intervals
         /\ intervals[r].elapsed > 0) =>
            LET elapsed == intervals[r].elapsed
                expected == IF runs[r].file.type = "application/pdf"
                            THEN PROGRESS_ESTIMATES.pdf
                            ELSE PROGRESS_ESTIMATES.image
            IN IF elapsed * FULL_PERCENT >= HOLD_PERCENT * expected * 1000
               THEN /\ progress = Pct(HOLD_PERCENT)
                    /\ progressStatus =
                          RemainingLabel(Max(expected - (elapsed \div 1000), 0))
                    /\ progressStatus.remaining >= 0
               ELSE progressStatus = Label("Extracting...")

\* C26: the extract command with no document selected, and a file-pick event
\* without a file, dispatch no call, start no timer and leave selectedFile,
\* extractedData, validationResult, isExtracting and progress unchanged
EmptyCommandsAreLocal ==
    [][((selectedFile = NULL /\ handleExtract) \/ handleFileInputChange(UNDEFINED)) =>
          /\ UNCHANGED <<selectedFile, extractedData, validationResult, isExtracting,
                         progress>>
          /\ runs' = runs
          /\ intervals' = intervals]_vars

\* C26 witness: no document is selected, the extract command can be issued,
\* and no run and no timer exists
NoDocumentWitness ==
    /\ selectedFile = NULL
    /\ ENABLED handleExtract
    /\ ~isExtracting
    /\ runs = <<>>
    /\ DOMAIN intervals = {}

\* C27: while the extraction call of a run is outstanding, isExtracting is
\* true and the run's progress tick timer has been started; both happen in
\* the step that dispatches the call
ProgressStartsWithDispatch ==
    /\ [](\A r \in DOMAIN runs :
             runs[r].pc = "uploadFile" => (isExtracting /\ r \in DOMAIN intervals))
    /\ [][Len(runs') > Len(runs) =>
             /\ isExtracting'
             /\ progressTimerRef' = Len(runs')
             /\ Len(runs') \in DOMAIN intervals'
             /\ intervals'[Len(runs')].elapsed = 0]_vars

\* C27 witness: the extraction call of the second run is outstanding and its
\* timer has ticked
ProgressStartsWitness ==
    \E r \in DOMAIN runs :
        /\ r = MaxRuns
        /\ runs[r].pc = "uploadFile"
        /\ isExtracting
        /\ r \in DOMAIN intervals
        /\ intervals[r].elapsed > 0
        /\ progress > 0

\* C28: no step of the workflow changes isApiOnline, the health interval or
\* the probes; with a document selected, a run in flight or a reset pending
\* the probes are issued on schedule
MonitorUnaffectedByWorkflow ==
    /\ [][WorkflowAction =>
             UNCHANGED <<isApiOnline, healthTimerRef, healthIntervals, probes,
                         probesIssued>>]_vars
    /\ []((/\ mounted
           /\ EffectRan
           /\ selectedFile # NULL \/ isExtracting \/ DOMAIN timeouts # {}) => OnSchedule)

\* C28 witness: the periodic probe has just been issued, one period after
\* the effect, while a run is in flight and its timer has ticked
ProbeIssuedDuringRunWitness ==
    \E r \in DOMAIN runs :
        /\ InFlight(r)
        /\ r \in DOMAIN intervals
        /\ intervals[r].elapsed > 0
        /\ mountedMs = HEALTH_PERIOD_MS
        /\ probesIssued = MaxProbes

\* C29: the answer to a probe changes neither the health interval nor the
\* number of probes issued, and sets isApiOnline to whether it succeeded (so
\* a success after a failure sets it true); after a failed probe the probes
\* are still issued on schedule
FailedProbeKeepsSchedule ==
    /\ [][(probes' # probes /\ probes' \subseteq probes) =>
             /\ UNCHANGED <<healthTimerRef, healthIntervals, probesIssued, mountedMs>>
             /\ isApiOnline' = (probeHistory'.last = "ok")]_vars
    /\ []((mounted /\ EffectRan /\ probeHistory.failed) => OnSchedule)

\* C29 witness: a probe has failed, the periodic probe was issued after a
\* full period, and the latest answer, a success, has set the signal true
RecoveredAfterFailureWitness ==
    /\ mounted
    /\ probeHistory.failed
    /\ probeHistory.last = "ok"
    /\ isApiOnline
    /\ probesIssued = MaxProbes
    /\ probes = {}
    /\ mountedMs > HEALTH_PERIOD_MS

\* C30: the reset callback scheduled at the end of a run leaves fraction and
\* label as they are when it fires while a later run is in flight
EarlierResetSparesLaterRun ==
    [][\A id \in DOMAIN timeouts :
          (/\ id \notin DOMAIN timeouts'
           /\ \E r \in DOMAIN runs : r > id /\ InFlight(r)) =>
              /\ progress' = progress
              /\ progressStatus' = progressStatus]_vars

\* C31: the answer to a probe leaves isApiOnline as it is when a probe issued
\* after it has been answered already, so that the signal is the outcome of
\* the most recently issued probe among those answered, never an older one
NewestAnsweredProbeDecides ==
    [][\A p \in probes :
          (/\ p \notin probes'
           /\ \E q \in (p + 1)..probesIssued : q \notin probes) =>
              isApiOnline' = isApiOnline]_vars

\* C32: at most one progress tick interval exists, it exists exactly while
\* isExtracting is true and is the one progressTimerRef holds; the handle
\* is replaced only when no interval is running
OneProgressTimerWhileExtracting ==
    /\ [](Cardinality(DOMAIN intervals) <= 1)
    /\ [](isExtracting <=> DOMAIN intervals # {})
    /\ [](DOMAIN intervals \subseteq {progressTimerRef})
    /\ [][progressTimerRef' # progressTimerRef => DOMAIN intervals = {}]_vars

\* C32 witness: a second run's interval is the only one running, the first
\* run's having been cleared when that run ended
SecondTimerAloneWitness ==
    /\ Len(runs) = 2
    /\ isExtracting
    /\ DOMAIN intervals = {2}
    /\ progressTimerRef = 2
    /\ intervals[2].elapsed > 0

\* C33: at most one run is in flight, and only while isExtracting is true;
\* a run starts only with a document selected, isExtracting false and no
\* other run in flight, also after a selection made during a run
AtMostOneRunInFlight ==
    /\ [](Cardinality({r \in DOMAIN runs : InFlight(r)}) <= 1)
    /\ []((\E r \in DOMAIN runs : InFlight(r)) => isExtracting)
    /\ [][Len(runs') > Len(runs) =>
             /\ selectedFile # NULL
             /\ ~isExtracting
             /\ \A r \in DOMAIN runs : ~InFlight(r)
             /\ Len(runs') = Len(runs) + 1]_vars

\* C33 witness: another document was selected while a run is in flight, and
\* the extract command is not accepted
ReselectedInFlightWitness ==
    /\ \E r \in DOMAIN runs :
          /\ InFlight(r)
          /\ runs[r].reselected
          /\ selectedFile # NULL
          /\ selectedFile # runs[r].file
    /\ ~ExtractEnabled
    /\ ~ENABLED handleExtract

\* C34: 'Validation in progress...' is shown only while a validate-text call
\* is outstanding
InProgressShownOnlyWhileValidating ==
    ValidationInProgressShown =>
        \E r \in DOMAIN runs : InFlight(r) /\ runs[r].pc = "validateText"

\* C35: for a document of an accepted type, the category startProgress takes
\* from the declared type (PDF or image) is the category uploadFile takes
\* from the extension of the name
CategoriesAgree ==
    (/\ apiCall.fn = "uploadFile"
     /\ apiCall.file # NULL
     /\ isValidFileType(apiCall.file)) =>
        ((EstimatedTime(apiCall.file) = PROGRESS_ESTIMATES.pdf) <=>
            (apiCall.endpoint = "/api/ocr/pdf"))

\* C36: when the result modal is shown, the result it shows was computed for
\* the file that is selected
ModalShowsResultOfSelectedFile ==
    (comparePage.showModal /\ Truthy(comparePage.comparisonResult)) =>
        /\ Truthy(comparePage.compareFile)
        /\ comparePage.comparisonResult.src = comparePage.compareFile.name

\* C37: the selection of another file leaves no extracted text, no OCR result
\* and no validation result
NewFileClearsStaleResults ==
    [][(/\ uploadPage'.selectedFile # uploadPage.selectedFile
        /\ Truthy(uploadPage'.selectedFile)) =>
           /\ uploadPage'.extractedText = ""
           /\ uploadPage'.ocrResult = NULL
           /\ uploadPage'.validationResult = NULL]_vars

====
